---- MODULE Spec2Model ----
(***************************************************************************)
(* Model of the Mach-O container decoder of bmod, src/formats/MachO.cpp:   *)
(* MachO::detect, MachO::parse and MachO::parseHeader, run over an input   *)
(* file given as a sequence of bytes.                                      *)
(*                                                                         *)
(* Numbers read from the file keep their width: a quint32 is a sequence of *)
(* 4 bytes and a quint64 a sequence of 8 bytes, least significant byte     *)
(* first, and +, - and * on them wrap modulo 2^32 / 2^64 as in the code.   *)
(* Stream positions and loop counters, which stay small, are naturals.     *)
(***************************************************************************)
EXTENDS Integers, Sequences, FiniteSets, TLC

VARIABLES
  file,      \* the bytes of the input file (never written)
  canOpen,   \* whether QFile::open succeeds on it
  pc,        \* where the decoder is: "idle" between calls, a loop of parse/parseHeader,
             \* "exited" after exit(0), "crashed" after an out-of-bounds access
  r,         \* the Reader: [pos, littleEndian]
  fat,       \* locals of parse: [isFat, nfat_arch, archs, i, next]
  h,         \* locals of parseHeader (see NoFrame)
  objects,   \* MachO::objects, the caller-visible list of BinaryObjects
  ret,       \* [calls, op, value]: calls of parse so far; the call that returned
             \* last ("detect", "parse", "none" while parse runs) and its value
  hist       \* history: what the running call of parse has done so far

vars == <<file, canOpen, pc, r, fat, h, objects, ret, hist>>

-----------------------------------------------------------------------------
(* Fixed-width unsigned integers as byte sequences, least significant first *)

Min(a, b) == IF a < b THEN a ELSE b

Reverse(s) == [i \in 1..Len(s) |-> s[Len(s) + 1 - i]]

Zero(n) == [i \in 1..n |-> 0]

\* The quint32 written 0xb3b2b1b0 in the source.
Hex(b3, b2, b1, b0) == <<b0, b1, b2, b3>>

\* A small natural as a quint32.
U32(n) == <<n % 256, (n \div 256) % 256, (n \div 65536) % 256, (n \div 16777216) % 256>>

\* Widening conversion quint32 -> quint64.
U64(w) == w \o Zero(8 - Len(w))

RECURSIVE AddCarry(_, _, _)
AddCarry(a, b, c) ==
  IF a = <<>> THEN <<>>
  ELSE LET s == a[1] + b[1] + c
       IN  <<s % 256>> \o AddCarry(Tail(a), Tail(b), s \div 256)

\* a + b and a - b in the width of a (both of the same width), wrapping.
UAdd(a, b) == AddCarry(a, b, 0)
USub(a, b) == AddCarry(a, [i \in 1..Len(b) |-> 255 - b[i]], 1)

RECURSIVE MulByte(_, _, _)
MulByte(a, k, c) ==
  IF a = <<>> THEN <<>>
  ELSE LET p == a[1] * k + c
       IN  <<p % 256>> \o MulByte(Tail(a), k, p \div 256)

\* a * b in the width of a, wrapping.
RECURSIVE UMul(_, _)
UMul(a, b) ==
  IF a = <<>> \/ b = <<>> THEN Zero(Len(a))
  ELSE UAdd(MulByte(a, b[1], 0), <<0>> \o UMul(SubSeq(a, 1, Len(a) - 1), Tail(b)))

\* Values from Beyond on lie past the end of every input of the model; a
\* position or a length that large is kept as Beyond.
Beyond == 256 * 256 * 256

IsSmall(v) == \A i \in 4..Len(v) : v[i] = 0

\* The value as a natural, saturated at Beyond.
Val(v) == IF IsSmall(v) THEN v[1] + 256 * v[2] + 65536 * v[3] ELSE Beyond

\* The value has its top bit set: negative once converted to int / qint64.
TopBit(v) == v[Len(v)] >= 128

\* a < b, both of the same width.
RECURSIVE ULt(_, _)
ULt(a, b) ==
  LET n == Len(a)
  IN  IF n = 0 THEN FALSE
      ELSE IF a[n] # b[n] THEN a[n] < b[n]
      ELSE ULt(SubSeq(a, 1, n - 1), SubSeq(b, 1, n - 1))

\* i < v for a small counter i and an unsigned v (the int is converted to unsigned).
Below(i, v) == i < Val(v)

-----------------------------------------------------------------------------
(* The Reader over the QFile: a position and an endianness.  A read returns  *)
(* the bytes that are there, fewer than asked for at the end of the file.    *)

\* Bytes left from position p on; seeking past the end is allowed and leaves none.
Avail(p) == IF p >= Len(file) THEN 0 ELSE Len(file) - p

\* Reader::read(n) at position p: at most n bytes, fewer at the end of the file.
ReadBytes(p, n) == SubSeq(file, p + 1, p + Min(n, Avail(p)))

\* Reader::getUInt16/32/64 and getUChar at position p (w bytes wide): the value,
\* 0 when fewer than w bytes are left (then *ok is false).
GetUInt(p, w, le) ==
  LET buf == ReadBytes(p, w)
  IN  IF Len(buf) < w THEN Zero(w) ELSE IF le THEN buf ELSE Reverse(buf)

\* One read of a straight-line run of reads: w bytes, and whether the code
\* checks ok after it (and returns false on a short read).
Checked(w) == [w |-> w, chk |-> TRUE]
Unchecked(w) == [w |-> w, chk |-> FALSE]

\* Runs the reads fs one after the other from position p.  ok: no checked read
\* was short; pos: the position after the last read made; at[i]: where read i
\* started; short: some read, checked or not, got fewer bytes than asked for.
RECURSIVE Run(_, _, _, _)
Run(p, fs, at, short) ==
  IF fs = <<>> THEN [ok |-> TRUE, pos |-> p, at |-> at, short |-> short]
  ELSE LET n == Min(fs[1].w, Avail(p))
       IN  IF n < fs[1].w /\ fs[1].chk
           THEN [ok |-> FALSE, pos |-> p + n, at |-> Append(at, p), short |-> TRUE]
           ELSE Run(p + n, Tail(fs), Append(at, p), short \/ n < fs[1].w)

Reads(p, fs) == Run(p, fs, <<>>, FALSE)

\* n checked 32-bit reads.
Words(n) == [i \in 1..n |-> Checked(4)]

\* Reader r(f): at the start of the file, little-endian until told otherwise.
NewReader == [pos |-> 0, littleEndian |-> TRUE]

-----------------------------------------------------------------------------
(* Strings *)

RECURSIVE UpToNul(_)
UpToNul(b) == IF b = <<>> \/ b[1] = 0 THEN <<>> ELSE <<b[1]>> \o UpToNul(Tail(b))

\* QString(const QByteArray &) and QString::fromUtf8(const QByteArray &): the
\* text up to the first zero byte; a byte that is not ASCII does not decode to
\* itself (it reads as U+FFFD here: no input of the model holds multi-byte UTF-8).
FromUtf8(b) == LET t == UpToNul(b) IN [i \in 1..Len(t) |-> IF t[i] < 128 THEN t[i] ELSE 65533]

\* "__TEXT", "__text", "__symbol_stub", "__stubs", "__cstring", "__objc_methname"
S_TEXT == <<95, 95, 84, 69, 88, 84>>
S_text == <<95, 95, 116, 101, 120, 116>>
S_symbol_stub == <<95, 95, 115, 121, 109, 98, 111, 108, 95, 115, 116, 117, 98>>
S_stubs == <<95, 95, 115, 116, 117, 98, 115>>
S_cstring == <<95, 95, 99, 115, 116, 114, 105, 110, 103>>
S_objc_methname == <<95, 95, 111, 98, 106, 99, 95, 109, 101, 116, 104, 110, 97, 109, 101>>

-----------------------------------------------------------------------------
(* Magic numbers *)

MH_MAGIC == Hex(\HFE, \HED, \HFA, \HCE)      \* 32-bit little endian
MH_MAGIC_64 == Hex(\HFE, \HED, \HFA, \HCF)   \* 64-bit little endian
MH_CIGAM == Hex(\HEC, \HAF, \HDE, \HEF)      \* 32-bit big endian
MH_CIGAM_64 == Hex(\HFC, \HAF, \HDE, \HEF)   \* 64-bit big endian
FAT_MAGIC == Hex(\HCA, \HFE, \HBA, \HBE)     \* universal binary
FAT_CIGAM == Hex(\HBE, \HBA, \HFE, \HCA)     \* universal binary

\* The width of the magic number: sizeof(quint32).
MagicWidth == 4

\* A detect that knows the four slice magics only: a variant that the
\* detection property must tell apart from detect.
detect_NoUniversal ==
  /\ canOpen
  /\ Avail(0) >= MagicWidth
  /\ GetUInt(0, MagicWidth, NewReader.littleEndian) \in
       {MH_MAGIC, MH_MAGIC_64, MH_CIGAM, MH_CIGAM_64}

\* What detect() returns on the input file.
detect ==
  /\ canOpen
  /\ Avail(0) >= MagicWidth
  /\ GetUInt(0, MagicWidth, NewReader.littleEndian) \in
       {MH_MAGIC, MH_MAGIC_64, MH_CIGAM, MH_CIGAM_64, FAT_MAGIC, FAT_CIGAM}

-----------------------------------------------------------------------------
(* Input files.  An input is built the way a linker lays a file out (header, *)
(* load commands, then the data the commands point to), in any of the four   *)
(* slice encodings, alone or inside a universal binary, whole or cut short.  *)

Enc(v, le) == IF le THEN v ELSE Reverse(v)

Pad16(s) == s \o Zero(16 - Len(s))

RECURSIVE Flatten(_)
Flatten(ss) == IF ss = <<>> THEN <<>> ELSE ss[1] \o Flatten(Tail(ss))

\* How a slice is encoded: its magic as read little-endian, the width and the
\* byte order of its fields.
LE32 == [magic |-> MH_MAGIC, bits |-> 32, le |-> TRUE]
LE64 == [magic |-> MH_MAGIC_64, bits |-> 64, le |-> TRUE]
BE32 == [magic |-> MH_CIGAM, bits |-> 32, le |-> FALSE]
BE64 == [magic |-> MH_CIGAM_64, bits |-> 64, le |-> FALSE]
\* The first bytes FE ED FA CE, which is none of the four magics read little-endian.
Odd32 == [magic |-> Hex(\HCE, \HFA, \HED, \HFE), bits |-> 32, le |-> TRUE]

\* A 32-bit field and an address-sized field of a slice encoded as k.
F32(v, k) == Enc(v, k.le)
FWide(v, k) == IF k.bits = 32 THEN Enc(v, k.le) ELSE Enc(U64(v), k.le)

HeaderLen(k) == IF k.bits = 64 THEN 32 ELSE 28

HeaderBytes(k, cputype, ncmds, sizeofcmds) ==
  k.magic \o F32(cputype, k) \o F32(U32(3), k) \o F32(U32(2), k) \o F32(U32(ncmds), k)
    \o F32(U32(sizeofcmds), k) \o F32(U32(0), k)
    \o (IF k.bits = 64 THEN Zero(4) ELSE <<>>)

\* A load command: tag, cmdsize, the fields, and extra bytes that cmdsize
\* covers beyond the fields.
LoadCmd(type, body, extra, k) ==
  F32(type, k) \o F32(U32(8 + Len(body) + Len(extra)), k) \o body \o extra

SectionBytes(secname, segname, addr, size, off, k) ==
  Pad16(secname) \o Pad16(segname) \o FWide(U32(addr), k) \o FWide(U32(size), k)
    \o F32(off, k) \o Zero(16) \o Zero(8) \o (IF k.bits = 64 THEN Zero(4) ELSE <<>>)

SegmentCmd(segname, sects, extra, k) ==
  LoadCmd(U32(IF k.bits = 64 THEN 25 ELSE 1),
          Pad16(segname) \o FWide(U32(0), k) \o FWide(U32(4096), k) \o FWide(U32(0), k)
            \o FWide(U32(4096), k) \o F32(U32(7), k) \o F32(U32(5), k)
            \o F32(U32(Len(sects)), k) \o F32(U32(0), k) \o Flatten(sects),
          extra, k)

SymtabCmd(symoff, nsyms, stroff, strsize, k) ==
  LoadCmd(U32(2), F32(U32(symoff), k) \o F32(U32(nsyms), k) \o F32(U32(stroff), k)
                    \o F32(U32(strsize), k), <<>>, k)

DysymtabCmd(indirsymoff, nindirsyms, k) ==
  LoadCmd(U32(11), Zero(48) \o F32(U32(indirsymoff), k) \o F32(U32(nindirsyms), k) \o Zero(16),
          <<>>, k)

DylibCmd(type, liboffset, path, k) ==
  LoadCmd(type, F32(U32(liboffset), k) \o F32(U32(2), k) \o F32(U32(65536), k)
                  \o F32(U32(65536), k) \o path, <<>>, k)

\* LC_LOAD_DYLINKER, LC_DYLD_ENVIRONMENT, LC_RPATH: a string offset and the string.
PathCmd(type, path, k) == LoadCmd(type, F32(U32(12), k) \o path, <<>>, k)

\* LC_FUNCTION_STARTS, LC_CODE_SIGNATURE, LC_SEGMENT_SPLIT_INFO, LC_DYLIB_CODE_SIGN_DRS.
LinkeditCmd(type, off, size, k) == LoadCmd(type, F32(off, k) \o F32(U32(size), k), <<>>, k)

ThreadCmd(type, flavor, count, k) ==
  LoadCmd(type, F32(U32(flavor), k) \o F32(U32(count), k) \o Zero(flavor * count), <<>>, k)

S_DATA == <<95, 95, 68, 65, 84, 65>>
S_data == <<95, 95, 100, 97, 116, 97>>
S_path == <<47, 97, 0, 0>>
\* "foo\0bar\0"
StringTable == <<102, 111, 111, 0, 98, 97, 114, 0>>

\* LC_VERSION_MIN_IPHONEOS, a load command the decoder has no case for.
LC_UNHANDLED == U32(37)
LC_LOAD_WEAK_DYLIB == Hex(\H80, 0, 0, \H18)
LC_RPATH == Hex(\H80, 0, 0, \H1C)
LC_DYLD_INFO_ONLY == Hex(\H80, 0, 0, \H22)
LC_MAIN == Hex(\H80, 0, 0, \H28)

\* One nlist entry and one indirect-symbol entry.
SymbolBytes(index, n, k) == F32(index, k) \o <<15, 1>> \o Zero(2) \o FWide(U32(8192 + 16 * n), k)

SymbolsBytes(syms, k) == Flatten([n \in 1..Len(syms) |-> SymbolBytes(syms[n], n, k)])
IndirectBytes(dyns, k) == Flatten([n \in 1..Len(dyns) |-> F32(dyns[n], k)])

StubsAddress == 16 * 256

\* The load commands of a slice, its data starting at offset d of the slice.
\* syms: the string-table indices of its symbols; dyns: its indirect symbols.
Commands(prog, k, d, syms, dyns) ==
  LET nsym == Len(SymbolsBytes(syms, k))
      nind == Len(IndirectBytes(dyns, k))
  IN CASE prog = "empty" -> <<>>
     [] prog = "syms" ->
          << SegmentCmd(S_TEXT,
               << SectionBytes(S_text, S_TEXT, 7936, 4, U32(d + 8 + nsym + nind), k),
                  SectionBytes(S_stubs, S_TEXT, StubsAddress, 12, U32(d + 12 + nsym + nind), k) >>,
               <<>>, k),
             SymtabCmd(d + 8, Len(syms), d, 8, k),
             DysymtabCmd(d + 8 + nsym, Len(dyns), k) >>
     [] prog = "nostubs" ->
          << SymtabCmd(d + 8, Len(syms), d, 8, k),
             DysymtabCmd(d + 8 + nsym, Len(dyns), k) >>
     [] prog = "secs" ->
          << SegmentCmd(S_TEXT,
               << SectionBytes(S_symbol_stub, S_TEXT, StubsAddress, 4, U32(d), k),
                  SectionBytes(S_cstring, S_TEXT, 8192, 4, U32(d + 4), k),
                  SectionBytes(S_data, S_DATA, 12288, 4, U32(d), k),
                  SectionBytes(S_objc_methname, S_TEXT, 16384, 4, U32(d + 4), k) >>,
               <<>>, k) >>
     [] prog = "skip" ->
          << LinkeditCmd(U32(38), U32(d), 4, k),
             LoadCmd(LC_UNHANDLED, F32(U32(0), k) \o F32(U32(0), k), <<>>, k),
             LinkeditCmd(U32(29), U32(d + 4), 4, k) >>
     [] prog = "misc" ->
          << LoadCmd(U32(34), Zero(40), <<>>, k),
             LoadCmd(LC_DYLD_INFO_ONLY, Zero(40), <<>>, k),
             DylibCmd(U32(12), 24, S_path, k),
             DylibCmd(U32(13), 24, S_path, k),
             DylibCmd(LC_LOAD_WEAK_DYLIB, 24, S_path, k),
             PathCmd(U32(14), S_path, k),
             PathCmd(U32(39), S_path, k),
             LoadCmd(U32(27), Zero(16), <<>>, k),
             LoadCmd(U32(36), Zero(8), <<>>, k),
             LoadCmd(U32(42), Zero(8), <<>>, k),
             LoadCmd(LC_MAIN, Zero(16), <<>>, k),
             LinkeditCmd(U32(30), U32(d), 4, k),
             LinkeditCmd(U32(43), U32(d), 4, k),
             LoadCmd(U32(41), Zero(8), <<>>, k),
             ThreadCmd(U32(4), 1, 4, k),
             ThreadCmd(U32(5), 2, 4, k),
             PathCmd(LC_RPATH, S_path, k) >>
     [] prog = "padded" ->
          \* a segment command whose cmdsize covers 24 bytes after its fields
          << SegmentCmd(S_TEXT, <<>>, LoadCmd(U32(27), Zero(16), <<>>, k), k),
             LinkeditCmd(U32(38), U32(d), 4, k) >>
     [] prog = "dylib20" ->
          \* a dylib command whose path starts at offset 20, inside its fields
          << DylibCmd(U32(12), 20, S_path, k),
             LoadCmd(U32(27), Zero(16), <<>>, k) >>
     [] prog = "far" ->
          \* a code signature declared at offset 2^32 - 8 of the slice
          << LinkeditCmd(U32(29), Hex(255, 255, 255, 248), 4, k) >>

Programs == {"empty", "syms", "nostubs", "secs", "skip", "misc", "padded", "dylib20", "far"}

\* The bytes of a slice.
Slice(k, cputype, prog, syms, dyns) ==
  LET size == Len(Flatten(Commands(prog, k, 0, syms, dyns)))
      cmds == Commands(prog, k, HeaderLen(k) + size, syms, dyns)
  IN  HeaderBytes(k, cputype, Len(cmds), size) \o Flatten(cmds)
        \o StringTable \o SymbolsBytes(syms, k) \o IndirectBytes(dyns, k) \o Zero(16)

\* The start of slice n (1-based) of a universal binary of the slices ss.
RECURSIVE FatOffset(_, _)
FatOffset(ss, n) == IF n = 1 THEN 8 + 20 * Len(ss) ELSE FatOffset(ss, n - 1) + Len(ss[n - 1])

\* A universal binary: the directory is big-endian and names PowerPC for every
\* slice, whatever the slice itself says.
FatFile(magic, ss) ==
  magic \o Enc(U32(Len(ss)), FALSE)
    \o Flatten([n \in 1..Len(ss) |->
         Enc(U32(18), FALSE) \o Zero(4) \o Enc(U32(FatOffset(ss, n)), FALSE)
           \o Enc(U32(Len(ss[n])), FALSE) \o Zero(4)])
    \o Flatten(ss)

-----------------------------------------------------------------------------
(* The data model: Section, SymbolEntry, BinaryObject *)

\* new Section(type, name, addr, size, offset); declared is history: the
\* offset as the slice declared it, before the slice's own offset was added.
Section(type, name, addr, size, offset, declared) ==
  [type |-> type, name |-> name, address |-> addr, size |-> size, offset |-> offset,
   data |-> <<>>, declared |-> declared]

SymbolEntry(index, value) == [index |-> index, string |-> <<>>, value |-> value]

\* new BinaryObject; base is history: the offset of the slice it is decoded
\* from.  (cpuSubType and fileType, set from the header by two more fixed
\* tables, are left out.)
NewObject ==
  [systemBits |-> 32, littleEndian |-> TRUE, cpuType |-> "X86", sections |-> <<>>,
   symbolTable |-> <<>>, dynSymbolTable |-> <<>>, base |-> Zero(4)]

\* BinaryObject::getSection(type): the first section of that type, <<>> if none.
getSection(obj, type) ==
  LET at == {n \in 1..Len(obj.sections) : obj.sections[n].type = type}
  IN  IF at = {} THEN <<>>
      ELSE <<obj.sections[CHOOSE n \in at : \A m \in at : n <= m]>>

\* Types in /usr/local/mach/machine.h
CpuType(cputype) ==
  CASE cputype = U32(7) -> "X86"
    [] cputype = Hex(1, 0, 0, 7) -> "X86_64"
    [] cputype = U32(11) -> "HPPA"
    [] cputype = U32(12) -> "ARM"
    [] cputype = U32(14) -> "SPARC"
    [] cputype = U32(15) -> "I860"
    [] cputype = U32(18) -> "PowerPC"
    [] cputype = Hex(1, 0, 0, 18) -> "PowerPC_64"
    [] OTHER -> "X86"

-----------------------------------------------------------------------------
(* The decoder's state *)

NoFat == [isFat |-> FALSE, nfat_arch |-> Zero(4), archs |-> <<>>, i |-> 0, next |-> 1]

\* The locals of parseHeader.  i, j, n: the counters of the command loop, of
\* the section loop and of the two symbol loops.
NoFrame ==
  [offset |-> Zero(4), binaryObject |-> NewObject, systemBits |-> 32, ncmds |-> Zero(4),
   i |-> 0, symoff |-> Zero(4), symnum |-> Zero(4), indirsymoff |-> Zero(4),
   indirsymnum |-> Zero(4), nsects |-> Zero(4), j |-> 0, symTable |-> <<>>,
   dynsymTable |-> <<>>, symsize |-> 0, dynsymsize |-> 0, n |-> 0]

\* short: a read of the running (or last) call of parse got fewer bytes than it
\* asked for; before: Len(objects) when the call began; cmds: the load commands
\* read so far in the slice, each with the position of its tag; seen: objects
\* as it was when each call of parse returned.
NoHistory == [short |-> FALSE, before |-> 0, cmds |-> <<>>, seen |-> <<>>]

\* parse returns v (from parse itself or out of parseHeader).
Return(v, rt, hs, objs) ==
  /\ pc' = "idle"
  /\ r' = NewReader
  /\ fat' = NoFat
  /\ h' = NoFrame
  /\ objects' = objs
  /\ ret' = [rt EXCEPT !.op = "parse", !.value = v]
  /\ hist' = [hs EXCEPT !.seen = Append(@, objs)]
  /\ UNCHANGED <<file, canOpen>>

\* A checked read came up short: return false all the way out of parse.
ReadFailed == Return(FALSE, ret, [hist EXCEPT !.short = TRUE], objects)

-----------------------------------------------------------------------------
(* MachO::detect *)

Detect ==
  /\ pc = "idle"
  /\ ret' = [ret EXCEPT !.op = "detect", !.value = detect]
  /\ UNCHANGED <<file, canOpen, pc, r, fat, h, objects, hist>>

-----------------------------------------------------------------------------
(* MachO::parse *)

MaxCalls == 2

\* Lines 31-48: open the file, read the magic, and for a universal binary the
\* number of architectures.
ParseBegin ==
  /\ pc = "idle"
  /\ ret.calls < MaxCalls
  /\ LET rt == [calls |-> ret.calls + 1, op |-> "none", value |-> FALSE]
         hs == [hist EXCEPT !.short = FALSE, !.before = Len(objects), !.cmds = <<>>]
         rd == Reads(0, Words(1))
         magic == GetUInt(0, 4, NewReader.littleEndian)
         rn == Reads(rd.pos, Words(1))
         nfat_arch == GetUInt(rd.pos, 4, FALSE)
     IN  IF ~canOpen THEN Return(FALSE, rt, hs, objects)
         ELSE IF ~rd.ok THEN Return(FALSE, rt, [hs EXCEPT !.short = TRUE], objects)
         ELSE IF magic \in {FAT_MAGIC, FAT_CIGAM}
         THEN IF ~rn.ok THEN Return(FALSE, rt, [hs EXCEPT !.short = TRUE], objects)
              ELSE /\ pc' = IF Below(0, nfat_arch) THEN "fat" ELSE "slices"
                   /\ r' = [pos |-> rn.pos, littleEndian |-> FALSE]
                   /\ fat' = [NoFat EXCEPT !.isFat = TRUE, !.nfat_arch = nfat_arch]
                   /\ ret' = rt
                   /\ hist' = hs
                   /\ UNCHANGED <<file, canOpen, h, objects>>
         ELSE /\ pc' = "header"
              /\ r' = [NewReader EXCEPT !.pos = rd.pos]
              /\ h' = [NoFrame EXCEPT !.offset = Zero(4)]
              /\ ret' = rt
              /\ hist' = hs
              /\ UNCHANGED <<file, canOpen, fat, objects>>

\* Lines 53-75: one record of the fat header.
FatArch ==
  /\ pc = "fat"
  /\ LET rd == Reads(r.pos, Words(5))
         offset == GetUInt(rd.at[3], 4, r.littleEndian)
         size == GetUInt(rd.at[4], 4, r.littleEndian)
     IN  IF ~rd.ok THEN ReadFailed
         ELSE /\ fat' = [fat EXCEPT !.archs = Append(@, <<offset, size>>), !.i = @ + 1]
              /\ pc' = IF Below(fat.i + 1, fat.nfat_arch) THEN "fat" ELSE "slices"
              /\ r' = [r EXCEPT !.pos = rd.pos]
              /\ UNCHANGED <<file, canOpen, h, objects, ret, hist>>

\* Lines 77-83 and 90: parseHeader on the next architecture, or return true
\* after the last one.
NextSlice ==
  /\ pc = "slices"
  /\ IF fat.next <= Len(fat.archs)
     THEN /\ pc' = "header"
          /\ h' = [NoFrame EXCEPT !.offset = fat.archs[fat.next][1]]
          /\ fat' = [fat EXCEPT !.next = @ + 1]
          /\ UNCHANGED <<file, canOpen, r, objects, ret, hist>>
     ELSE Return(TRUE, ret, hist, objects)

-----------------------------------------------------------------------------
(* MachO::parseHeader *)

\* A variant without line 97: the magic read in the order the reader was left in.
MagicEndian_Kept(rdr) == rdr.littleEndian

\* Line 97, r.setLittleEndian(true): the byte order the slice's magic is read in.
MagicEndian(rdr) == TRUE

\* Lines 93-280: seek to the slice, read its magic and its header.
HeaderBegin ==
  /\ pc = "header"
  /\ LET start == Val(h.offset)
         rm == Reads(start, Words(1))
         magic == GetUInt(start, 4, MagicEndian(r))
         systemBits == IF magic \in {MH_MAGIC_64, MH_CIGAM_64} THEN 64 ELSE 32
         littleEndian == magic \notin {MH_CIGAM, MH_CIGAM_64}
         rd == Reads(rm.pos, Words(6) \o (IF systemBits = 64 THEN <<Unchecked(4)>> ELSE <<>>))
         cputype == GetUInt(rd.at[1], 4, littleEndian)
         ncmds == GetUInt(rd.at[4], 4, littleEndian)
     IN  IF ~rm.ok \/ ~rd.ok THEN ReadFailed
         ELSE /\ pc' = "cmds"
              /\ r' = [pos |-> rd.pos, littleEndian |-> littleEndian]
              /\ h' = [h EXCEPT !.binaryObject =
                                   [NewObject EXCEPT !.systemBits = systemBits,
                                                     !.littleEndian = littleEndian,
                                                     !.cpuType = CpuType(cputype),
                                                     !.base = h.offset],
                                !.systemBits = systemBits,
                                !.ncmds = ncmds]
              /\ hist' = [hist EXCEPT !.short = @ \/ rd.short, !.cmds = <<>>]
              /\ UNCHANGED <<file, canOpen, fat, objects, ret>>

\* Lines 284-289: the tag and the size of the next load command.
InCommands == pc = "cmds" /\ Below(h.i, h.ncmds)
CmdHead == Reads(r.pos, Words(2))
CmdType == GetUInt(r.pos, 4, r.littleEndian)
CmdSize == GetUInt(r.pos + 4, 4, r.littleEndian)

\* The width of an address-sized field of the slice.
Wide == IF h.systemBits = 32 THEN 4 ELSE 8

\* The command read, as the history keeps it.
Logged == Append(hist.cmds, [start |-> r.pos, type |-> CmdType, cmdsize |-> CmdSize])

\* The command is done after the reads rd, leaving the locals hh: on to the
\* next iteration of the command loop.
NextCommand(rd, hh) ==
  /\ pc' = "cmds"
  /\ r' = [r EXCEPT !.pos = rd.pos]
  /\ h' = [hh EXCEPT !.i = @ + 1]
  /\ hist' = [hist EXCEPT !.short = @ \/ rd.short, !.cmds = Logged]
  /\ UNCHANGED <<file, canOpen, fat, objects, ret>>

\* The fields of a command are read by the reads fs, with no effect but on
\* the position.
Discarded(fs) ==
  LET rd == Reads(CmdHead.pos, fs)
  IN  IF ~rd.ok THEN ReadFailed ELSE NextCommand(rd, h)

\* Lines 285-289: the file ends inside the tag or the size.
LcTruncated ==
  /\ InCommands
  /\ ~CmdHead.ok
  /\ ReadFailed

\* A variant that leaves the slice's offset out.
FileOffset_NoBase(offset, declared) == declared

\* offset + secfileoff and the like (lines 416, 423, 429, 435, 507, 666, 674,
\* 766, 789): the file offset of a section declared at `declared` in a slice
\* that starts at `offset`.
FileOffset(offset, declared) == UAdd(offset, declared)

addSection(obj, sec) == [obj EXCEPT !.sections = Append(@, sec)]

\* Lines 291-354: LC_SEGMENT or LC_SEGMENT_64, up to its sections.
LcSegment ==
  /\ InCommands
  /\ CmdHead.ok
  /\ CmdType \in {U32(1), U32(25)}
  /\ LET rd == Reads(CmdHead.pos,
                     <<Unchecked(16), Checked(Wide), Checked(Wide), Checked(Wide),
                       Checked(Wide)>> \o Words(4))
         nsects == GetUInt(rd.at[8], 4, r.littleEndian)
     IN  IF ~rd.ok THEN ReadFailed
         ELSE IF Below(0, nsects)
         THEN /\ pc' = "sects"
              /\ r' = [r EXCEPT !.pos = rd.pos]
              /\ h' = [h EXCEPT !.nsects = nsects, !.j = 0]
              /\ hist' = [hist EXCEPT !.short = @ \/ rd.short, !.cmds = Logged]
              /\ UNCHANGED <<file, canOpen, fat, objects, ret>>
         ELSE NextCommand(rd, h)

\* Lines 411-438: the sections that are kept, by segment and section name.
StoredSections(segname, secname, addr, secsize, offset, secfileoff) ==
  IF segname # S_TEXT THEN <<>>
  ELSE IF secname = S_text
  THEN <<Section("Text", "Program", addr, secsize, FileOffset(offset, secfileoff), secfileoff)>>
  ELSE IF secname = S_symbol_stub \/ secname = S_stubs
  THEN <<Section("SymbolStubs", "Symbol Stubs", addr, secsize,
                 FileOffset(offset, secfileoff), secfileoff)>>
  ELSE IF secname = S_cstring
  THEN <<Section("CString", "C-Strings", addr, secsize,
                 FileOffset(offset, secfileoff), secfileoff)>>
  ELSE IF secname = S_objc_methname
  THEN <<Section("CString", "ObjC Method Names", addr, secsize,
                 FileOffset(offset, secfileoff), secfileoff)>>
  ELSE <<>>

\* Lines 357-440: one section of the segment.
SectionEntry ==
  /\ pc = "sects"
  /\ LET rd == Reads(r.pos,
                     <<Unchecked(16), Unchecked(16), Checked(Wide), Checked(Wide)>>
                       \o Words(5) \o <<Unchecked(4), Unchecked(4)>>
                       \o (IF h.systemBits = 64 THEN <<Unchecked(4)>> ELSE <<>>))
         secname == FromUtf8(ReadBytes(rd.at[1], 16))
         segname == FromUtf8(ReadBytes(rd.at[2], 16))
         addr == U64(GetUInt(rd.at[3], Wide, r.littleEndian))
         secsize == U64(GetUInt(rd.at[4], Wide, r.littleEndian))
         secfileoff == GetUInt(rd.at[5], 4, r.littleEndian)
         obj == [h.binaryObject EXCEPT !.sections =
                   @ \o StoredSections(segname, secname, addr, secsize, h.offset, secfileoff)]
         last == ~Below(h.j + 1, h.nsects)
     IN  IF ~rd.ok THEN ReadFailed
         ELSE /\ pc' = IF last THEN "cmds" ELSE "sects"
              /\ r' = [r EXCEPT !.pos = rd.pos]
              /\ h' = [h EXCEPT !.binaryObject = obj,
                                !.j = @ + 1,
                                !.i = IF last THEN @ + 1 ELSE @]
              /\ hist' = [hist EXCEPT !.short = @ \/ rd.short]
              /\ UNCHANGED <<file, canOpen, fat, objects, ret>>

\* Lines 444-485: LC_DYLD_INFO or LC_DYLD_INFO_ONLY.
LcDyldInfo ==
  /\ InCommands
  /\ CmdHead.ok
  /\ CmdType \in {U32(34), LC_DYLD_INFO_ONLY}
  /\ Discarded(Words(10))

\* Lines 487-509: LC_SYMTAB.
LcSymtab ==
  /\ InCommands
  /\ CmdHead.ok
  /\ CmdType = U32(2)
  /\ LET rd == Reads(CmdHead.pos, Words(4))
         symoff == GetUInt(rd.at[1], 4, r.littleEndian)
         symnum == GetUInt(rd.at[2], 4, r.littleEndian)
         stroff == GetUInt(rd.at[3], 4, r.littleEndian)
         strsize == GetUInt(rd.at[4], 4, r.littleEndian)
         sec == Section("String", "String Table", U64(stroff), U64(strsize),
                        FileOffset(h.offset, stroff), stroff)
     IN  IF ~rd.ok THEN ReadFailed
         ELSE NextCommand(rd, [h EXCEPT !.symoff = symoff, !.symnum = symnum,
                                        !.binaryObject = addSection(@, sec)])

\* Lines 511-584: LC_DYSYMTAB.
LcDysymtab ==
  /\ InCommands
  /\ CmdHead.ok
  /\ CmdType = U32(11)
  /\ LET rd == Reads(CmdHead.pos, Words(18))
         indirsymoff == GetUInt(rd.at[13], 4, r.littleEndian)
         indirsymnum == GetUInt(rd.at[14], 4, r.littleEndian)
     IN  IF ~rd.ok THEN ReadFailed
         ELSE NextCommand(rd, [h EXCEPT !.indirsymoff = indirsymoff,
                                        !.indirsymnum = indirsymnum])

\* Lines 586-606: LC_LOAD_DYLIB, LC_ID_DYLIB or LC_LOAD_WEAK_DYLIB.
LcDylib ==
  /\ InCommands
  /\ CmdHead.ok
  /\ CmdType \in {U32(12), U32(13), LC_LOAD_WEAK_DYLIB}
  /\ LET liboffset == GetUInt(CmdHead.pos, 4, r.littleEndian)
     IN  Discarded(Words(4) \o <<Unchecked(Val(USub(CmdSize, liboffset)))>>)

\* Lines 608-615: LC_LOAD_DYLINKER or LC_DYLD_ENVIRONMENT.
LcDylinker ==
  /\ InCommands
  /\ CmdHead.ok
  /\ CmdType \in {U32(14), U32(39)}
  /\ LET noffset == GetUInt(CmdHead.pos, 4, r.littleEndian)
     IN  Discarded(Words(1) \o <<Unchecked(Val(USub(CmdSize, noffset)))>>)

\* Lines 617-620: LC_UUID.
LcUuid ==
  /\ InCommands
  /\ CmdHead.ok
  /\ CmdType \in {U32(27)}
  /\ Discarded(<<Unchecked(16)>>)

\* Lines 622-631: LC_VERSION_MIN_MACOSX.
LcVersionMin ==
  /\ InCommands
  /\ CmdHead.ok
  /\ CmdType \in {U32(36)}
  /\ Discarded(Words(2))

\* Lines 633-638: LC_SOURCE_VERSION.
LcSourceVersion ==
  /\ InCommands
  /\ CmdHead.ok
  /\ CmdType \in {U32(42)}
  /\ Discarded(<<Checked(8)>>)

\* Lines 640-649: LC_MAIN.
LcMain ==
  /\ InCommands
  /\ CmdHead.ok
  /\ CmdType \in {LC_MAIN}
  /\ Discarded(<<Checked(8), Checked(8)>>)

\* Lines 651-677: LC_FUNCTION_STARTS, LC_DYLIB_CODE_SIGN_DRS,
\* LC_SEGMENT_SPLIT_INFO or LC_CODE_SIGNATURE.
LcLinkedit ==
  /\ InCommands
  /\ CmdHead.ok
  /\ CmdType \in {U32(38), U32(43), U32(30), U32(29)}
  /\ LET rd == Reads(CmdHead.pos, Words(2))
         off == GetUInt(rd.at[1], 4, r.littleEndian)
         siz == GetUInt(rd.at[2], 4, r.littleEndian)
         obj == IF CmdType = U32(38)
                THEN addSection(h.binaryObject,
                       Section("FuncStarts", "Function Starts", U64(off), U64(siz),
                               FileOffset(h.offset, off), off))
                ELSE IF CmdType = U32(29)
                THEN addSection(h.binaryObject,
                       Section("CodeSig", "Code Signature", U64(off), U64(siz),
                               FileOffset(h.offset, off), off))
                ELSE h.binaryObject
     IN  IF ~rd.ok THEN ReadFailed
         ELSE NextCommand(rd, [h EXCEPT !.binaryObject = obj])

\* Lines 679-692: LC_DATA_IN_CODE.
LcDataInCode ==
  /\ InCommands
  /\ CmdHead.ok
  /\ CmdType \in {U32(41)}
  /\ Discarded(<<Checked(4), Checked(2), Checked(2)>>)

\* Lines 694-704: LC_THREAD or LC_UNIXTHREAD.
LcThread ==
  /\ InCommands
  /\ CmdHead.ok
  /\ CmdType \in {U32(4), U32(5)}
  /\ LET flavor == GetUInt(CmdHead.pos, 4, r.littleEndian)
         count == GetUInt(CmdHead.pos + 4, 4, r.littleEndian)
     IN  Discarded(Words(2) \o <<Unchecked(Val(UMul(flavor, count)))>>)

\* Lines 706-714: LC_RPATH.
LcRpath ==
  /\ InCommands
  /\ CmdHead.ok
  /\ CmdType \in {LC_RPATH}
  /\ LET off == GetUInt(CmdHead.pos, 4, r.littleEndian)
     IN  Discarded(Words(1) \o <<Unchecked(Val(USub(CmdSize, off)))>>)

\* The tags the command loop has a case for.
KnownTypes ==
  {U32(1), U32(25), U32(34), LC_DYLD_INFO_ONLY, U32(2), U32(11), U32(12), U32(13),
   LC_LOAD_WEAK_DYLIB, U32(14), U32(39), U32(27), U32(36), U32(42), LC_MAIN, U32(38),
   U32(43), U32(30), U32(29), U32(41), U32(4), U32(5), LC_RPATH}

\* Lines 716-720: any other tag: exit(0).
LcUnknown ==
  /\ InCommands
  /\ CmdHead.ok
  /\ CmdType \notin KnownTypes
  /\ pc' = "exited"
  /\ hist' = [hist EXCEPT !.cmds = Logged]
  /\ UNCHANGED <<file, canOpen, r, fat, h, objects, ret>>

\* Lines 723-728: the command loop is over; seek to the symbol table if an
\* LC_SYMTAB named one.
EndCommands ==
  /\ pc = "cmds"
  /\ ~Below(h.i, h.ncmds)
  /\ pc' = "syms"
  /\ r' = IF h.symnum # Zero(4) THEN [r EXCEPT !.pos = Val(h.symoff)] ELSE r
  /\ h' = [h EXCEPT !.n = 0]
  /\ UNCHANGED <<file, canOpen, fat, objects, ret, hist>>

\* Lines 730-762: one entry of the symbol table.
SymbolEntryRead ==
  /\ pc = "syms"
  /\ Below(h.n, h.symnum)
  /\ LET rd == Reads(r.pos, <<Checked(4), Checked(1), Checked(1), Checked(2), Checked(Wide)>>)
         index == GetUInt(rd.at[1], 4, r.littleEndian)
         value == U64(GetUInt(rd.at[5], Wide, r.littleEndian))
     IN  IF ~rd.ok THEN ReadFailed
         ELSE /\ h' = [h EXCEPT !.symTable = Append(@, SymbolEntry(index, value)),
                                !.symsize = @ + (rd.pos - r.pos),
                                !.n = @ + 1]
              /\ r' = [r EXCEPT !.pos = rd.pos]
              /\ UNCHANGED <<file, canOpen, pc, fat, objects, ret, hist>>

\* Lines 764-776: the Symbol Table section; seek to the indirect symbols if an
\* LC_DYSYMTAB named some.
SymbolsDone ==
  /\ pc = "syms"
  /\ ~Below(h.n, h.symnum)
  /\ LET sec == Section("Symbols", "Symbol Table", U64(h.symoff), U64(U32(h.symsize)),
                        FileOffset(h.offset, h.symoff), h.symoff)
     IN  h' = [h EXCEPT !.binaryObject = IF h.symnum # Zero(4) THEN addSection(@, sec) ELSE @,
                        !.n = 0]
  /\ pc' = "dyns"
  /\ r' = IF h.indirsymnum # Zero(4) THEN [r EXCEPT !.pos = Val(h.indirsymoff)] ELSE r
  /\ UNCHANGED <<file, canOpen, fat, objects, ret, hist>>

\* Lines 777-785: one entry of the indirect symbol table.
DynEntryRead ==
  /\ pc = "dyns"
  /\ Below(h.n, h.indirsymnum)
  /\ LET rd == Reads(r.pos, Words(1))
         num == GetUInt(rd.at[1], 4, r.littleEndian)
     IN  IF ~rd.ok THEN ReadFailed
         ELSE /\ h' = [h EXCEPT !.dynsymTable = Append(@, SymbolEntry(num, Zero(8))),
                                !.dynsymsize = @ + (rd.pos - r.pos),
                                !.n = @ + 1]
              /\ r' = [r EXCEPT !.pos = rd.pos]
              /\ UNCHANGED <<file, canOpen, pc, fat, objects, ret, hist>>

\* Lines 787-791: the Dynamic Symbol Table section.
DynsDone ==
  /\ pc = "dyns"
  /\ ~Below(h.n, h.indirsymnum)
  /\ LET sec == Section("DynSymbols", "Dynamic Symbol Table", U64(h.indirsymoff),
                        U64(U32(h.dynsymsize)), FileOffset(h.offset, h.indirsymoff),
                        h.indirsymoff)
     IN  h' = [h EXCEPT !.binaryObject =
                          IF h.indirsymnum # Zero(4) THEN addSection(@, sec) ELSE @]
  /\ pc' = "fill"
  /\ UNCHANGED <<file, canOpen, r, fat, objects, ret, hist>>

\* r.seek(sec->getOffset()); r.read(sec->getSize()): a size with its top bit
\* set is a negative length, which reads nothing.
SectionData(sec) ==
  IF TopBit(sec.size) THEN <<>> ELSE ReadBytes(Val(sec.offset), Val(sec.size))

\* Lines 793-797: fill data of stored sections.
FillSections ==
  /\ pc = "fill"
  /\ LET secs == h.binaryObject.sections
         filled == [n \in 1..Len(secs) |-> [secs[n] EXCEPT !.data = SectionData(secs[n])]]
         short == \E n \in 1..Len(secs) : Len(filled[n].data) < Val(secs[n].size)
         last == filled[Len(secs)]
     IN  /\ h' = [h EXCEPT !.binaryObject.sections = filled]
         /\ r' = IF secs = <<>> THEN r
                 ELSE [r EXCEPT !.pos = Val(last.offset) + Len(last.data)]
         /\ hist' = [hist EXCEPT !.short = @ \/ short]
  /\ pc' = "strings"
  /\ UNCHANGED <<file, canOpen, fat, objects, ret>>

\* Lines 807-812: tmp, the bytes of data from index i up to and including the
\* first zero byte.
RECURSIVE Scan(_, _)
Scan(data, i) ==
  IF i >= Len(data) THEN <<>>
  ELSE <<data[i + 1]>> \o (IF data[i + 1] = 0 THEN <<>> ELSE Scan(data, i + 1))

\* What a name can come out as when the scan starts at a negative index, in
\* memory before the buffer: any bytes (two stand for all).
Garbage == {<<>>, <<63>>}

\* Lines 799-817: merge string table entries into the symbol table.  A string
\* index with its top bit set is a negative int i, and data[i] reads outside
\* the buffer: the name is whatever lies there, or the process dies.
ResolveStrings ==
  /\ pc = "strings"
  /\ LET strTable == getSection(h.binaryObject, "String")
         symbols == h.symTable
         outside == IF h.symnum # Zero(4) /\ strTable # <<>>
                    THEN {n \in 1..Len(symbols) : TopBit(symbols[n].index)}
                    ELSE {}
     IN  \/ \E g \in [outside -> Garbage] :
              LET named == [n \in 1..Len(symbols) |->
                              [symbols[n] EXCEPT !.string =
                                 IF n \in outside THEN g[n]
                                 ELSE FromUtf8(Scan(strTable[1].data, Val(symbols[n].index)))]]
                  merged == IF h.symnum # Zero(4) /\ strTable # <<>> THEN named ELSE symbols
              IN  /\ h' = [h EXCEPT !.symTable = merged,
                                    !.binaryObject.symbolTable =
                                      IF h.symnum # Zero(4) THEN merged ELSE @]
                  /\ pc' = "dynamic"
                  /\ UNCHANGED <<file, canOpen, r, fat, objects, ret, hist>>
         \/ /\ outside # {}
            /\ pc' = "crashed"
            /\ UNCHANGED <<file, canOpen, r, fat, h, objects, ret, hist>>

\* A variant that counts the stubs from 1.
StubAddress_OneBased(stubAddr, hh) == UAdd(stubAddr, U64(U32((hh + 1) * 6)))

\* Line 835, stubAddr + h * 6: each symbol stub takes up 6 bytes.
StubAddress(stubAddr, hh) == UAdd(stubAddr, U64(U32(hh * 6)))

\* Lines 819-843: merge data from the symbol table and the symbol stubs into
\* the dynamic symbol table, append the object, return true.
ResolveDynamic ==
  /\ pc = "dynamic"
  /\ LET stubs == getSection(h.binaryObject, "SymbolStubs")
         dynsymbols == h.dynsymTable
         merged == [n \in 1..Len(dynsymbols) |->
                      LET idx == dynsymbols[n].index
                      IN  IF ~TopBit(idx) /\ ULt(idx, h.symnum)
                          THEN [dynsymbols[n] EXCEPT
                                  !.string = h.symTable[Val(idx) + 1].string,
                                  !.value = StubAddress(stubs[1].address, n - 1)]
                          ELSE dynsymbols[n]]
         binaryObject ==
           IF h.indirsymnum # Zero(4) /\ h.symnum # Zero(4)
           THEN [h.binaryObject EXCEPT !.dynSymbolTable =
                                         IF stubs # <<>> THEN merged ELSE dynsymbols]
           ELSE h.binaryObject
     IN  IF fat.isFat
         THEN /\ pc' = "slices"
              /\ objects' = Append(objects, binaryObject)
              /\ h' = NoFrame
              /\ UNCHANGED <<file, canOpen, r, fat, ret, hist>>
         ELSE Return(TRUE, ret, hist, Append(objects, binaryObject))

-----------------------------------------------------------------------------
(* The inputs of the model *)

MaxSyms == 2
MaxSlices == 2

SeqsUpTo(S, n) == UNION {[1..m -> S] : m \in 0..n}

Encodings == {LE32, LE64, BE32, BE64}

\* String-table indices: "foo", "bar", the length of the table, 2^31.
StringIndices == {U32(0), U32(4), U32(8), Hex(128, 0, 0, 0)}

\* Indirect symbols: the first three symbol numbers, and 2^31.
SymbolIndices == {U32(0), U32(1), U32(2), Hex(128, 0, 0, 0)}

\* The same slice alone, as the only slice of a universal binary, and after
\* another slice in one.
Containers(slice) ==
  { slice,
    FatFile(FAT_CIGAM, <<slice>>),
    FatFile(FAT_MAGIC, <<Slice(LE32, U32(7), "empty", <<>>, <<>>), slice>>) }

\* Slices with a symbol table and indirect symbols.
SymbolSlices ==
  {Slice(k, U32(7), "syms", syms, <<U32(1), U32(0)>>) :
     k \in {LE32, BE64}, syms \in SeqsUpTo(StringIndices, MaxSyms)}
  \cup
  {Slice(k, U32(7), "syms", syms, dyns) :
     k \in {LE64, BE32}, syms \in {<<U32(4)>>, <<U32(4), U32(0)>>},
     dyns \in SeqsUpTo(SymbolIndices, MaxSyms)}
  \cup
  {Slice(LE32, U32(7), "nostubs", <<U32(4), U32(0)>>, dyns) :
     dyns \in SeqsUpTo(SymbolIndices, MaxSyms)}

\* A slice of each program in each encoding.
ProgramSlices ==
  {Slice(k, U32(12), prog, <<U32(0)>>, <<U32(0)>>) :
     k \in Encodings \cup {Odd32}, prog \in Programs}

CpuOf(k) ==
  CASE k = LE32 -> U32(7)
    [] k = LE64 -> Hex(1, 0, 0, 7)
    [] k = BE32 -> U32(18)
    [] k = BE64 -> Hex(1, 0, 0, 18)
    [] OTHER -> U32(12)

\* Universal binaries of up to MaxSlices slices, in any mix of encodings.
FatFiles ==
  {FatFile(m, [n \in 1..Len(ks) |-> Slice(ks[n], CpuOf(ks[n]), "empty", <<>>, <<>>)]) :
     m \in {FAT_MAGIC, FAT_CIGAM}, ks \in SeqsUpTo(Encodings \cup {Odd32}, MaxSlices)}

Prefixes(f) == {SubSeq(f, 1, n) : n \in 0..Len(f)}

\* Files cut short at every byte.
CutFiles ==
  Prefixes(Slice(LE64, Hex(1, 0, 0, 7), "syms", <<U32(0), U32(4)>>, <<U32(1), U32(0)>>))
  \cup Prefixes(Slice(LE64, Hex(1, 0, 0, 7), "empty", <<>>, <<>>))
  \cup Prefixes(Slice(BE32, U32(18), "misc", <<>>, <<>>))
  \cup Prefixes(Slice(LE32, U32(7), "syms", <<Hex(255, 255, 255, 255)>>, <<>>))
  \cup Prefixes(FatFile(FAT_CIGAM, <<Slice(LE32, U32(7), "empty", <<>>, <<>>),
                                     Slice(BE64, Hex(1, 0, 0, 18), "secs", <<>>, <<>>)>>))

Inputs ==
  SymbolSlices \cup UNION {Containers(s) : s \in ProgramSlices} \cup FatFiles \cup CutFiles

Init ==
  /\ file \in Inputs
  /\ canOpen \in {TRUE} \cup (IF file \in ProgramSlices THEN {FALSE} ELSE {})
  /\ pc = "idle"
  /\ r = NewReader
  /\ fat = NoFat
  /\ h = NoFrame
  /\ objects = <<>>
  /\ ret = [calls |-> 0, op |-> "none", value |-> FALSE]
  /\ hist = NoHistory

Next ==
  \/ Detect
  \/ ParseBegin
  \/ FatArch
  \/ NextSlice
  \/ HeaderBegin
  \/ LcTruncated
  \/ LcSegment
  \/ SectionEntry
  \/ LcDyldInfo
  \/ LcSymtab
  \/ LcDysymtab
  \/ LcDylib
  \/ LcDylinker
  \/ LcUuid
  \/ LcVersionMin
  \/ LcSourceVersion
  \/ LcMain
  \/ LcLinkedit
  \/ LcDataInCode
  \/ LcThread
  \/ LcRpath
  \/ LcUnknown
  \/ EndCommands
  \/ SymbolEntryRead
  \/ SymbolsDone
  \/ DynEntryRead
  \/ DynsDone
  \/ FillSections
  \/ ResolveStrings
  \/ ResolveDynamic

Spec == Init /\ [][Next]_vars

-----------------------------------------------------------------------------
(* detect on its own, over every file of up to MagicWidth bytes drawn from   *)
(* the bytes of the six magics and zero, and a few longer ones.              *)

MagicBytes ==
  {0, \HFE, \HED, \HFA, \HCE, \HCF, \HEC, \HAF, \HDE, \HEF, \HFC, \HCA, \HBA, \HBE}

DetectInputs ==
  SeqsUpTo(MagicBytes, MagicWidth)
  \cup {Enc(m, le) \o <<t>> : m \in {MH_MAGIC, MH_CIGAM_64, FAT_MAGIC, FAT_CIGAM, Zero(4)},
                              le \in BOOLEAN, t \in {0, \HFE}}

InitDetect ==
  /\ file \in DetectInputs
  /\ canOpen \in BOOLEAN
  /\ pc = "idle"
  /\ r = NewReader
  /\ fat = NoFat
  /\ h = NoFrame
  /\ objects = <<>>
  /\ ret = [calls |-> 0, op |-> "none", value |-> FALSE]
  /\ hist = NoHistory

NextDetect == Detect

SpecDetect == InitDetect /\ [][NextDetect]_vars

-----------------------------------------------------------------------------
(* Properties *)

\* parse has just returned v.
Returned(v) == pc = "idle" /\ ret.op = "parse" /\ ret.value = v

\* The objects the last call of parse added to the result list.
Appended == SubSeq(objects, hist.before + 1, Len(objects))

\* C1: when parse fails because of a read failure, the result list holds no
\* BinaryObject produced by that call: it is as long as when the call began.
C1_FailureLeavesNoObject ==
  (Returned(FALSE) /\ hist.short) => Len(objects) = hist.before

\* The load command at position start, of size cmdsize, lies inside the file
\* and is at least as long as its tag and size.
ValidCmdSize(c) == Val(c.cmdsize) >= 8 /\ c.start + Val(c.cmdsize) <= Len(file)

\* C2: a load command with an unrecognized tag and a valid cmdsize is not
\* fatal: the decoder never exits on one.
C2_UnknownCommandNotFatal ==
  pc = "exited" => ~ValidCmdSize(hist.cmds[Len(hist.cmds)])

\* C3: parse never returns success after a read that ran past the end of the
\* input.
C3_ShortReadFailsParse ==
  (pc = "idle" /\ ret.op = "parse" /\ hist.short) => ret.value = FALSE

\* The first four bytes of the file as one 32-bit value in the Reader's initial
\* byte order, as its two 16-bit halves <<high, low>>.
FirstWord ==
  LET b == IF NewReader.littleEndian THEN SubSeq(file, 1, 4) ELSE Reverse(SubSeq(file, 1, 4))
  IN  <<b[4] * 256 + b[3], b[2] * 256 + b[1]>>

\* C4: detect returns true exactly when the file opens, has at least 4 bytes,
\* and its first 4 bytes read as one 32-bit value are 0xFEEDFACE, 0xFEEDFACF,
\* 0xECAFDEEF, 0xFCAFDEEF, 0xCAFEBABE or 0xBEBAFECA; it returns false otherwise.
C4_DetectExact ==
  ret.op = "detect" =>
    (ret.value <=>
       /\ canOpen
       /\ Len(file) >= 4
       /\ FirstWord \in {<<\HFEED, \HFACE>>, <<\HFEED, \HFACF>>, <<\HECAF, \HDEEF>>,
                         <<\HFCAF, \HDEEF>>, <<\HCAFE, \HBABE>>, <<\HBEBA, \HFECA>>})

\* detect has returned true on a file of exactly 4 bytes that read 0xBEBAFECA.
C4_Witness ==
  ret.op = "detect" /\ ret.value /\ Len(file) = 4 /\ FirstWord = <<\HBEBA, \HFECA>>

\* The file starts with one of the two universal-binary magics.
IsUniversal ==
  Len(file) >= 4 /\ SubSeq(file, 1, 4) \in {<<\HCA, \HFE, \HBA, \HBE>>, <<\HBE, \HBA, \HFE, \HCA>>}

\* The big-endian 32-bit number at offset p of the file.
BigEndianAt(p) ==
  file[p + 4] + 256 * file[p + 3] + 65536 * file[p + 2] + 16777216 * file[p + 1]

\* The number of slices and the offset of slice n, as the fat directory gives them.
DirCount == BigEndianAt(4)
DirOffset(n) == BigEndianAt(8 + 20 * (n - 1) + 8)

\* C5: for a universal binary whose N slices all decode, parse appends exactly
\* N objects in directory order, and the n-th has the bit-width and endianness
\* that the 4 bytes at the n-th slice's offset denote.
C5_FanOut ==
  (Returned(TRUE) /\ canOpen /\ IsUniversal) =>
    /\ Len(Appended) = DirCount
    /\ \A n \in 1..Len(Appended) :
         LET m == SubSeq(file, DirOffset(n) + 1, DirOffset(n) + 4)
             o == Appended[n]
         IN  /\ m = <<\HCE, \HFA, \HED, \HFE>> => (o.systemBits = 32 /\ o.littleEndian)
             /\ m = <<\HCF, \HFA, \HED, \HFE>> => (o.systemBits = 64 /\ o.littleEndian)
             /\ m = <<\HEF, \HDE, \HAF, \HEC>> => (o.systemBits = 32 /\ ~o.littleEndian)
             /\ m = <<\HEF, \HDE, \HAF, \HFC>> => (o.systemBits = 64 /\ ~o.littleEndian)

\* A universal binary of a big-endian slice followed by a 64-bit little-endian
\* one has been decoded.
C5_Witness ==
  /\ Returned(TRUE) /\ canOpen /\ IsUniversal
  /\ Len(Appended) = 2
  /\ ~Appended[1].littleEndian
  /\ Appended[2].littleEndian /\ Appended[2].systemBits = 64

\* C6: parse called again on the unchanged input leaves the same result list
\* as the first call left.
C6_Idempotent ==
  \A n \in 2..Len(hist.seen) : hist.seen[n] = hist.seen[1]

\* The name at index idx of the string table's content: the bytes from idx up
\* to the first zero byte or the end; empty for an index outside the content.
NameAt(data, idx) ==
  IF TopBit(idx) \/ Val(idx) >= Len(data) THEN <<>>
  ELSE LET zeros == {m \in (Val(idx) + 1)..Len(data) : data[m] = 0}
           end == IF zeros = {} THEN Len(data)
                  ELSE (CHOOSE m \in zeros : \A k \in zeros : m <= k) - 1
       IN  SubSeq(data, Val(idx) + 1, end)

\* The objects decoded so far, the one whose names are being merged included.
Decoded ==
  {objects[n] : n \in 1..Len(objects)} \cup (IF pc = "dynamic" THEN {h.binaryObject} ELSE {})

\* C7: with a String Table section and a non-empty symbol table, every symbol
\* is named by the string-table content at its index, an index outside the
\* content (2^31 and above included) gives the empty name, and the decoder
\* does not die.
C7_NamesResolved ==
  /\ pc # "crashed"
  /\ \A o \in Decoded :
       LET strTable == getSection(o, "String")
       IN  (strTable # <<>> /\ o.symbolTable # <<>>) =>
             \A n \in 1..Len(o.symbolTable) :
               o.symbolTable[n].string = NameAt(strTable[1].data, o.symbolTable[n].index)

\* The raw index of a dynamic-symbol entry lies in [0, symnum).
InRange(idx, symnum) == ~TopBit(idx) /\ Val(idx) < symnum

\* C8: in every decoded object with a Symbol Stubs section and a non-empty
\* symbol table, the dynamic-symbol entry at 0-based position p has, if its raw
\* index idx is in [0, symnum), the name of symbol idx and the address
\* stubs.address + p * 6 (in 64 bits), and otherwise an empty name and address 0.
C8_DynamicResolved ==
  \A i \in 1..Len(objects) :
    LET o == objects[i]
        stubs == getSection(o, "SymbolStubs")
    IN  (stubs # <<>> /\ o.symbolTable # <<>>) =>
          \A n \in 1..Len(o.dynSymbolTable) :
            LET e == o.dynSymbolTable[n]
            IN  IF InRange(e.index, Len(o.symbolTable))
                THEN /\ e.string = o.symbolTable[Val(e.index) + 1].string
                     /\ e.value = UAdd(stubs[1].address, U64(U32(6 * (n - 1))))
                ELSE e.string = <<>> /\ e.value = Zero(8)

\* parse has returned true with an object whose second dynamic symbol is
\* resolved to a named symbol and whose first is out of range.
C8_Witness ==
  /\ Returned(TRUE)
  /\ \E i \in 1..Len(objects) :
       LET o == objects[i]
       IN  /\ getSection(o, "SymbolStubs") # <<>>
           /\ Len(o.symbolTable) = 2
           /\ Len(o.dynSymbolTable) = 2
           /\ ~InRange(o.dynSymbolTable[1].index, 2)
           /\ InRange(o.dynSymbolTable[2].index, 2)
           /\ o.dynSymbolTable[2].string # <<>>

\* The offsets at which the input places its slices: those of the fat
\* directory for a universal binary, 0 otherwise.
SliceOffsets ==
  IF IsUniversal THEN {U32(DirOffset(n)) : n \in 1..DirCount} ELSE {Zero(4)}

\* The objects decoded or being decoded.
Registered ==
  {objects[n] : n \in 1..Len(objects)}
  \cup (IF pc \in {"cmds", "sects", "syms", "dyns", "fill", "strings", "dynamic"}
        THEN {h.binaryObject} ELSE {})

C10_NextTagAtCmdsize ==
  \A n \in 1..(Len(hist.cmds) - 1) :
    hist.cmds[n + 1].start = hist.cmds[n].start + Val(hist.cmds[n].cmdsize)

\* C11: the symbol entries of a slice are read from the slice's offset plus
\* symoff, and its indirect symbols from the slice's offset plus indirsymoff:
\* where the Symbol Table and Dynamic Symbol Table sections say they are.
C11_SymbolsReadAtBase ==
  /\ (pc = "syms" /\ h.n = 0 /\ h.symnum # Zero(4)) =>
       r.pos = Val(UAdd(h.offset, h.symoff))
  /\ (pc = "dyns" /\ h.n = 0 /\ h.indirsymnum # Zero(4)) =>
       r.pos = Val(UAdd(h.offset, h.indirsymoff))

\* C12: an object is produced for a slice only if the 4 bytes at the slice's
\* offset are one of the four slice magics, and it then has the bit-width and
\* the endianness that magic denotes.
C12_MagicValidated ==
  \A i \in 1..Len(objects) :
    LET o == objects[i]
        m == SubSeq(file, Val(o.base) + 1, Val(o.base) + 4)
    IN  \/ m = <<\HCE, \HFA, \HED, \HFE>> /\ o.systemBits = 32 /\ o.littleEndian
        \/ m = <<\HCF, \HFA, \HED, \HFE>> /\ o.systemBits = 64 /\ o.littleEndian
        \/ m = <<\HEF, \HDE, \HAF, \HEC>> /\ o.systemBits = 32 /\ ~o.littleEndian
        \/ m = <<\HEF, \HDE, \HAF, \HFC>> /\ o.systemBits = 64 /\ ~o.littleEndian

====
